---- MODULE Spec2Model ----
(***************************************************************************)
(* The proof-of-work gate of tinycomments (server/src/pow.rs): PowTable,   *)
(* its two mutex-guarded tables, and the calls handle, get_txcount,        *)
(* get_challenge, generate_pow and validate_pow, each executed by a        *)
(* thread one lock-delimited step at a time.                               *)
(***************************************************************************)
EXTENDS Integers, Sequences, FiniteSets, TLC

(***************************************************************************)
(* Program constants.                                                      *)
(***************************************************************************)
SLOTS == 32
WINDOW_SECS == 30
THRESHOLD == 5
BASE_BITS == 16
\* width of the type in which generate_pow computes 2^bits
U64_BITS == 64

(***************************************************************************)
(* Bounds of the model.                                                    *)
(***************************************************************************)
\* clock ticks per second (the resolution of an Instant in the model)
TicksPerSec == 2
\* ticks the clock advances at a time
Tick == 31
\* last clock value
MaxTime == 62
\* proofless gated calls the heavy identity makes at most
MaxCalls == 34
\* proofless gated calls every other identity makes at most
MaxOtherCalls == 1
\* bytes of key material the model keeps of the 32 the code draws
KeyBytes == 1
\* challenges minted at most under SpecPow
MaxIssued == 2
\* proofless gated calls the heavy identity makes at most under SpecGate
MaxGateCalls == 9
\* proofless gated calls that are begun at most under SpecLocks
MaxLockCalls == 8
\* proofless requests the heavy identity makes at most under SpecHttp
MaxHttpCalls == 7
\* recording calls the heavy identity makes at most under SpecProbe
MaxProbeCalls == 9
\* proofless gated calls that are begun at most under SpecBurst
MaxBurstCalls == 8
\* proofless gated calls the heavy identity makes at most under SpecLife
MaxLifeCalls == 8
MaxLiveCalls == 7

IPs == {"a", "b"}
HeavyIP == "a"
Threads == {1, 2}
NoThread == 0
\* a mutex whose holder panicked: free, and every lock() on it returns Err
Poisoned == -1
NoInstant == -1

(***************************************************************************)
(* Text and byte conversions.                                              *)
(***************************************************************************)
HexChars == <<"0", "1", "2", "3", "4", "5", "6", "7",
              "8", "9", "a", "b", "c", "d", "e", "f">>

\* hex::encode: two lower-case hex digits per byte
RECURSIVE HexEncode(_)
HexEncode(bytes) ==
    IF bytes = <<>> THEN <<>>
    ELSE <<HexChars[(Head(bytes) \div 16) + 1], HexChars[(Head(bytes) % 16) + 1]>>
         \o HexEncode(Tail(bytes))

\* the UTF-8 byte of a character of a hex or decimal string
CharByte(c) ==
    LET i == CHOOSE k \in 0..15 : HexChars[k + 1] = c
    IN  IF i < 10 THEN 48 + i ELSE 87 + i

\* str::as_bytes
AsBytes(str) == [k \in DOMAIN str |-> CharByte(str[k])]

\* the secret formatted in lower-case hexadecimal instead of decimal
RECURSIVE ToLowerHex(_)
ToLowerHex(n) ==
    IF n < 16 THEN <<HexChars[n + 1]>>
    ELSE ToLowerHex(n \div 16) \o <<HexChars[(n % 16) + 1]>>

\* format!("{}", n) of an unsigned integer: decimal, no leading zeros
RECURSIVE ToDecimal(_)
ToDecimal(n) ==
    IF n < 10 THEN <<HexChars[n + 1]>>
    ELSE ToDecimal(n \div 10) \o <<HexChars[(n % 10) + 1]>>

\* HMAC-SHA256 as a deterministic, collision-free function of key and message:
\* the digest is the length-prefixed key followed by the message
HmacSha256(key, msg) == <<Len(key)>> \o key \o msg

\* the commitment of a secret text under a hex key (pow.rs 160-165, 198-204)
Commitment(hexkey, secret) == HexEncode(HmacSha256(AsBytes(hexkey), AsBytes(secret)))

\* the n-th output of rng.fill: KeyBytes bytes, big-endian; the generator's
\* outputs are taken never to repeat, so each call draws the next key
RECURSIVE KeyOf(_, _)
KeyOf(n, len) ==
    IF len = 0 THEN <<>> ELSE KeyOf(n \div 256, len - 1) \o <<n % 256>>

(***************************************************************************)
(* Option<String>: None is <<>>, Some(s) is <<s>>.                         *)
(***************************************************************************)
None == <<>>
Some(s) == <<s>>

(***************************************************************************)
(* State.                                                                  *)
(***************************************************************************)
VARIABLES
    now,           \* the monotonic clock, in ticks
    transactions,  \* PowTable.transactions: ip -> 32 slots of Option<Instant>
    challenges,    \* PowTable.challenges: commitment -> PowChallenge
    txLock,        \* holder of the transactions mutex
    chLock,        \* holder of the challenges mutex
    pc,            \* each thread's position
    frame,         \* each thread's arguments and locals
    ret,           \* what the last call returned and observed, until the next call is made
    drawn,         \* keys thread_rng has produced so far
    hist,          \* per identity: the proofless gated calls actually made
    issued         \* per commitment minted: whom for, key, secret, and its validations

vars == <<now, transactions, challenges, txLock, chLock, pc, frame, ret, drawn, hist,
          issued>>

IdleFrame ==
    [op |-> "none", ip |-> "", challenge |-> None, secret |-> None,
     count |-> 0, bits |-> 0, key |-> <<>>, hexkey |-> <<>>, minted |-> <<>>,
     n |-> 0, time |-> 0, gap |-> -1, recentBefore |-> 0, storedBefore |-> -1,
     freshAfter |-> 0, drew |-> 0, pendingAtCall |-> FALSE, consumedAtCall |-> FALSE,
     pendingAtLookup |-> FALSE, wrongAtLookup |-> FALSE, verdict |-> "",
     fullBefore |-> FALSE, holdsLatest |-> TRUE, lockFailed |-> FALSE,
     gate |-> -1, db |-> FALSE, freshBefore |-> 0, admittedBefore |-> 0,
     prevBits |-> 0, prevAt |-> NoInstant]

NoRet == [IdleFrame EXCEPT !.op = "none"] @@
         [code |-> 0, status |-> "", result |-> "", outChallenge |-> None, outKey |-> None]

NoHist == [n |-> 0, first |-> -1, last |-> -1, recent |-> <<>>,
           over |-> FALSE, challenged |-> FALSE, admitted |-> <<>>,
           lastBits |-> 0, lastAt |-> NoInstant]

Init ==
    /\ now = 0
    /\ transactions = <<>>
    /\ challenges = <<>>
    /\ txLock = NoThread
    /\ chLock = NoThread
    /\ pc = [t \in Threads |-> "idle"]
    /\ frame = [t \in Threads |-> IdleFrame]
    /\ ret = NoRet
    /\ drawn = 0
    /\ hist = [ip \in IPs |-> NoHist]
    /\ issued = <<>>

(***************************************************************************)
(* HashMap operations.                                                     *)
(***************************************************************************)
MapInsert(map, k, v) == [x \in (DOMAIN map) \cup {k} |-> IF x = k THEN v ELSE map[x]]
\* a removal that removes nothing
MapRemoveNothing(map, k) == map
MapRemove(map, k) == [x \in (DOMAIN map) \ {k} |-> map[x]]

(***************************************************************************)
(* The rate tracker: get_txcount (pow.rs 93-138).                          *)
(***************************************************************************)
\* the duration read in minutes instead of seconds
AsMins(d) == d \div (60 * TicksPerSec)

\* Duration::as_secs of a duration in ticks
AsSecs(d) == d \div TicksPerSec

\* an expiry test that never expires an entry
UnexpiredAlways(tx, clock) == TRUE

\* tx.elapsed().as_secs() < 30
Unexpired(tx, clock) == AsSecs(clock - tx) < WINDOW_SECS

\* the for loop over txvec.iter().flatten(): the unexpired entries, in slot order
Kept(txvec, clock) ==
    LET Keep(tx) == tx # NoInstant /\ Unexpired(tx, clock)
    IN  SelectSeq(txvec, Keep)

\* [None; 32] with the given entries in its first slots
Slots(entries) == entries \o [k \in 1..(SLOTS - Len(entries)) |-> NoInstant]

\* <[Option<Instant>]>::sort: ascending, None before every Some
RECURSIVE SortInsert(_, _)
SortInsert(x, s) ==
    IF s = <<>> THEN <<x>>
    ELSE IF x <= Head(s) THEN <<x>> \o s
    ELSE <<Head(s)>> \o SortInsert(x, Tail(s))

RECURSIVE Sort(_)
Sort(s) == IF s = <<>> THEN s ELSE SortInsert(Head(s), Sort(Tail(s)))

\* a window in which a call that is going to be challenged is not recorded
RecordedUnlessChallenged(kept, clock) ==
    IF Len(kept) > THRESHOLD
    THEN Slots(kept)
    ELSE [Slots(kept) EXCEPT ![Len(kept) + 1] = clock]

\* the window written back when a transaction is added (pow.rs 112-119)
Recorded(kept, clock) ==
    IF Len(kept) < SLOTS
    THEN [Slots(kept) EXCEPT ![Len(kept) + 1] = clock]
    ELSE [Sort(Slots(kept)) EXCEPT ![SLOTS] = clock]

\* the count returned when the identity has an entry (pow.rs 101-110, 122)
TxCount(kept) == Len(kept)

\* a count-only call that records all the same
GetTxcountRecording(table, ip, clock, add_transaction) ==
    IF ip \in DOMAIN table
    THEN LET kept == Kept(table[ip], clock)
         IN  [count |-> TxCount(kept),
              table |-> MapInsert(table, ip, Recorded(kept, clock))]
    ELSE [count |-> 1, table |-> MapInsert(table, ip, Slots(<<clock>>))]

\* get_txcount under the lock: the value returned and the table left behind
GetTxcount(table, ip, clock, add_transaction) ==
    IF ip \in DOMAIN table
    THEN LET kept == Kept(table[ip], clock)
         IN  [count |-> TxCount(kept),
              table |-> IF add_transaction
                        THEN MapInsert(table, ip, Recorded(kept, clock))
                        ELSE table]
    ELSE IF add_transaction
         THEN [count |-> 1, table |-> MapInsert(table, ip, Slots(<<clock>>))]
         ELSE [count |-> 0, table |-> table]

\* a test that lets one more call through
OverThresholdLax(count) == count > THRESHOLD + 1

\* a test that already challenges at the threshold
OverThresholdInclusive(count) == count >= THRESHOLD

\* get_challenge's test of the count (pow.rs 142)
OverThreshold(count) == count > THRESHOLD

\* a difficulty that multiplies where the code adds
DifficultyScaled(count) == BASE_BITS * (count - THRESHOLD)

\* the difficulty get_challenge asks for (pow.rs 143)
Difficulty(count) == BASE_BITS + count - THRESHOLD

(***************************************************************************)
(* What the identities actually did, kept beside the program's state.      *)
(***************************************************************************)
WindowTicks == WINDOW_SECS * TicksPerSec

\* the calls of a history made less than 30 seconds before the clock
RecentCalls(times, clock) ==
    LET Near(x) == clock - x < WindowTicks
    IN  SelectSeq(times, Near)

\* occupied slots of a stored window
Occupied(txvec) ==
    LET Full(tx) == tx # NoInstant
    IN  Len(SelectSeq(txvec, Full))

\* entries of a stored window less than 30 seconds old at the clock
FreshStored(txvec, clock) ==
    LET Near(tx) == tx # NoInstant /\ clock - tx < WindowTicks
    IN  Len(SelectSeq(txvec, Near))

\* the stored entries of a window, oldest first
StoredSorted(txvec) ==
    LET Full(tx) == tx # NoInstant
    IN  Sort(SelectSeq(txvec, Full))

\* the last k calls of a history kept in the order the calls were made
Latest(times, k) ==
    IF Len(times) <= k THEN times ELSE SubSeq(times, Len(times) - k + 1, Len(times))

\* a minted commitment no validation has accepted yet, and one that was accepted
Pending(c) == c \in DOMAIN issued /\ issued[c].oks = 0
Consumed(c) == c \in DOMAIN issued /\ issued[c].oks > 0

\* a counter that stops at 2
Bump(k) == IF k < 2 THEN k + 1 ELSE k

(***************************************************************************)
(* Returning from a call.                                                  *)
(***************************************************************************)
\* handle's return value: None is code 0
Returned(f, code, status, result, outChallenge, outKey) ==
    f @@ [code |-> code, status |-> status, result |-> result,
          outChallenge |-> outChallenge, outKey |-> outKey]

Return(t, r) ==
    /\ ret' = r
    /\ pc' = [pc EXCEPT ![t] = "idle"]
    /\ frame' = [frame EXCEPT ![t] = IdleFrame]

\* the protected HTTP operations of the server (main.rs 205, 293, 391, 495),
\* each of which starts with the gate's dispatch written out in place
Endpoints == {"id", "post_comment", "get_comments", "vote"}

\* a call that goes through the gate
Gated(op) == op = "handle" \/ op \in Endpoints

\* an operation that returns early on a rejected proof only
ProceedsUnlessForbidden(code) == code # 403

\* whether an HTTP operation goes on past the gate: none of the three early
\* returns was taken (main.rs 225-241)
Proceeds(code) == code = 0

\* the end of the gate: handle returns its verdict; an HTTP operation returns
\* the response of a verdict other than Admitted, and otherwise goes on
Finish(t, r) ==
    IF r.op \in Endpoints /\ Proceeds(r.code)
    THEN /\ pc' = [pc EXCEPT ![t] = "db"]
         /\ frame' = [frame EXCEPT ![t] =
                         [[k \in DOMAIN IdleFrame |-> r[k]] EXCEPT !.gate = r.code]]
         /\ ret' = ret
    ELSE Return(t, [r EXCEPT !.gate = IF Gated(r.op) THEN r.code ELSE -1])

(***************************************************************************)
(* handle (pow.rs 61-91): the dispatch on the proof fields.                *)
(***************************************************************************)
\* a dispatch that sends a call carrying a complete proof to the rate tracker
DispatchCountsProofs(challenge, secret) ==
    IF challenge # None /\ secret = None THEN "incomplete" ELSE "tx_lock"

\* a dispatch that treats a commitment without a secret as no proof at all
DispatchIgnoresIncomplete(challenge, secret) ==
    IF challenge # None /\ secret # None THEN "val_lock" ELSE "tx_lock"

\* where handle goes on the two proof fields (pow.rs 62-81)
Dispatch(challenge, secret) ==
    IF challenge # None
    THEN IF secret # None THEN "val_lock" ELSE "incomplete"
    ELSE "tx_lock"

Gate(t, op, ip, challenge, secret) ==
    /\ pc[t] = "idle"
    /\ LET f == [IdleFrame EXCEPT !.op = op, !.ip = ip,
                                  !.challenge = challenge, !.secret = secret,
                                  !.pendingAtCall =
                                      (challenge # None /\ Pending(challenge[1])),
                                  !.consumedAtCall =
                                      (challenge # None /\ Consumed(challenge[1]))]
           d == Dispatch(challenge, secret)
       IN  IF d = "incomplete"
           THEN Finish(t, Returned(f, 500,
                    "Challenge proof incomplete: no secret provided", "",
                    None, None))
           ELSE /\ pc' = [pc EXCEPT ![t] = d]
                /\ frame' = [frame EXCEPT ![t] = f]
                /\ ret' = NoRet
    /\ UNCHANGED <<now, transactions, challenges, txLock, chLock, drawn, hist, issued>>

Handle(t, ip, challenge, secret) == Gate(t, "handle", ip, challenge, secret)

\* an HTTP operation up to its database action (main.rs 224-242, 309-327,
\* 414-432, 515-533)
Request(t, endpoint, ip, challenge, secret) == Gate(t, endpoint, ip, challenge, secret)

\* what follows the gate in an HTTP operation: the database action, unless the
\* request is found invalid or the connection unusable first (main.rs 243-291,
\* 328-389, 433-493, 534-591)
DbAction(t, ok) ==
    /\ pc[t] = "db"
    /\ Return(t, Returned([frame[t] EXCEPT !.db = ok],
                          IF ok THEN 200 ELSE 500,
                          IF ok THEN "OK" ELSE "error", "", None, None))
    /\ UNCHANGED <<now, transactions, challenges, txLock, chLock, drawn, hist, issued>>

(***************************************************************************)
(* get_challenge -> get_txcount(ip, true) (pow.rs 140-150, 93-138).        *)
(***************************************************************************)
\* self.transactions.lock()
TxLockFree == txLock = NoThread

LockTransactions(t) ==
    /\ pc[t] = "tx_lock"
    /\ TxLockFree
    /\ txLock' = t
    /\ pc' = [pc EXCEPT ![t] = "tx_body"]
    /\ UNCHANGED <<now, transactions, challenges, chLock, frame, ret, drawn, hist, issued>>

\* the text get_pow puts in the challenge field when none is required
\* (main.rs 604), and the empty string of its key field (main.rs 603)
NotRequiredText ==
    <<"C", "h", "a", "l", "l", "e", "n", "g", "e", " ", "n", "o", "t", " ",
      "r", "e", "q", "u", "i", "r", "e", "d", ".">>
EmptyText == <<>>

\* what the caller of get_challenge returns when it gets None: handle and the
\* HTTP operations go on (pow.rs 90), get_pow answers 300 (main.rs 601-605)
NoChallengeReturned(f) ==
    IF f.op = "get_pow"
    THEN Returned(f, 300, "", "", NotRequiredText, EmptyText)
    ELSE Returned(f, 0, "", "", None, None)

\* what is returned with a challenge just inserted: the 401 of the gate
\* (pow.rs 82-87), the 401 of get_pow with plain strings (main.rs 596-600),
\* or generate_pow's Ok(Pow) (pow.rs 176-179)
ChallengeReturned(f) ==
    IF Gated(f.op)
    THEN Returned(f, 401, "", "", Some(f.minted), Some(f.hexkey))
    ELSE IF f.op = "get_pow"
    THEN Returned(f, 401, "", "", f.minted, f.hexkey)
    ELSE Returned(f, 0, "", "Ok", Some(f.minted), Some(f.hexkey))

\* the issue-challenge probe: get_pow calls get_challenge (main.rs 593-595)
GetPow(t, ip) ==
    /\ pc[t] = "idle"
    /\ pc' = [pc EXCEPT ![t] = "tx_lock"]
    /\ frame' = [frame EXCEPT ![t] = [IdleFrame EXCEPT !.op = "get_pow", !.ip = ip]]
    /\ ret' = NoRet
    /\ UNCHANGED <<now, transactions, challenges, txLock, chLock, drawn, hist, issued>>

\* a guard that outlives get_txcount when a challenge is to be generated
TxGuardKept(t, count) == IF OverThreshold(count) THEN t ELSE NoThread

\* a transactions guard that is never dropped
TxGuardHeld(t, count) == t

\* the transactions guard dropped where get_txcount's match ends (pow.rs 135),
\* whatever the count
TxGuardDropped(t, count) == NoThread

\* the body of get_txcount, the release of the lock, and get_challenge's test
RecordAndCount(t) ==
    /\ pc[t] = "tx_body"
    /\ LET ip == frame[t].ip
           h == hist[ip]
       IN
       \E r \in {GetTxcount(transactions, ip, now, TRUE)},
          before \in {RecentCalls(h.recent, now)},
          let \in {RecentCalls(h.admitted, now)} :
       \E f \in {[frame[t] EXCEPT
                    !.count = r.count,
                    !.n = h.n + 1,
                    !.time = now,
                    !.gap = IF h.n = 0 THEN -1 ELSE now - h.last,
                    !.recentBefore = Len(before),
                    !.storedBefore = IF ip \in DOMAIN transactions
                                     THEN Occupied(transactions[ip]) ELSE -1,
                    !.freshAfter = FreshStored(r.table[ip], now),
                    !.freshBefore = IF ip \in DOMAIN transactions
                                    THEN FreshStored(transactions[ip], now) ELSE 0,
                    !.admittedBefore = Len(let),
                    !.fullBefore = (ip \in DOMAIN transactions
                                    /\ FreshStored(transactions[ip], now) = SLOTS),
                    !.holdsLatest = (StoredSorted(r.table[ip])
                                     = Latest(before \o <<now>>, SLOTS))]} :
           /\ transactions' = r.table
           /\ txLock' = TxGuardDropped(t, r.count)
           /\ hist' = [hist EXCEPT ![ip] =
                          [h EXCEPT !.n = h.n + 1,
                                    !.first = IF h.n = 0 THEN now ELSE h.first,
                                    !.last = now,
                                    !.recent = before \o <<now>>,
                                    !.over = h.over \/ Len(before) + 1 > THRESHOLD,
                                    !.admitted =
                                        IF Gated(frame[t].op) /\ ~OverThreshold(r.count)
                                        THEN let \o <<now>> ELSE let]]
           /\ IF OverThreshold(r.count)
              THEN /\ pc' = [pc EXCEPT ![t] = "gen"]
                   /\ frame' = [frame EXCEPT ![t] =
                                   [f EXCEPT !.bits = Difficulty(r.count)]]
                   /\ ret' = ret
              ELSE Finish(t, NoChallengeReturned(f))
    /\ UNCHANGED <<now, challenges, chLock, drawn, issued>>

\* a direct call of get_txcount(ip, false)
GetTxcountOnly(t, ip) ==
    /\ pc[t] = "idle"
    /\ pc' = [pc EXCEPT ![t] = "cnt_lock"]
    /\ frame' = [frame EXCEPT ![t] = [IdleFrame EXCEPT !.op = "get_txcount", !.ip = ip]]
    /\ ret' = NoRet
    /\ UNCHANGED <<now, transactions, challenges, txLock, chLock, drawn, hist, issued>>

LockTransactionsToCount(t) ==
    /\ pc[t] = "cnt_lock"
    /\ TxLockFree
    /\ txLock' = t
    /\ pc' = [pc EXCEPT ![t] = "cnt_body"]
    /\ UNCHANGED <<now, transactions, challenges, chLock, frame, ret, drawn, hist, issued>>

\* the body of get_txcount with add_transaction = false, and the release of
\* the lock
CountOnly(t) ==
    /\ pc[t] = "cnt_body"
    /\ LET ip == frame[t].ip
           r == GetTxcount(transactions, ip, now, FALSE)
           f == [frame[t] EXCEPT
                    !.count = r.count,
                    !.time = now,
                    !.storedBefore = IF ip \in DOMAIN transactions
                                     THEN Occupied(transactions[ip]) ELSE -1,
                    !.freshBefore = IF ip \in DOMAIN transactions
                                    THEN FreshStored(transactions[ip], now) ELSE 0]
       IN  /\ transactions' = r.table
           /\ txLock' = TxGuardDropped(t, r.count)
           /\ Return(t, Returned(f, 0, "", "Ok", None, None))
    /\ UNCHANGED <<now, challenges, chLock, drawn, hist, issued>>

(***************************************************************************)
(* generate_pow (pow.rs 152-183).                                          *)
(***************************************************************************)
\* whether a sampled secret lies in 0..2^bits (samples are below 2^31)
InRange(s, bits) == IF bits >= 31 THEN TRUE ELSE s < 2 ^ bits

\* rng.fill and rng.gen_range, the MAC and its hex form (pow.rs 153-165)
MintChallenge(t, secret) ==
    /\ pc[t] = "gen"
    /\ InRange(secret, frame[t].bits)
    /\ LET key == KeyOf(drawn + 1, KeyBytes)
           hexkey == HexEncode(key)
       IN  frame' = [frame EXCEPT ![t] =
                        [@ EXCEPT !.key = key, !.hexkey = hexkey, !.drew = secret,
                                  !.minted = Commitment(hexkey, ToDecimal(secret))]]
    /\ drawn' = drawn + 1
    /\ pc' = [pc EXCEPT ![t] = "gen_lock"]
    /\ UNCHANGED <<now, transactions, challenges, txLock, chLock, ret, hist, issued>>

\* a lock that excludes nobody
ChLockIgnored == TRUE

\* self.challenges.lock()
ChLockFree == chLock = NoThread

LockChallengesToInsert(t) ==
    /\ pc[t] = "gen_lock"
    /\ ChLockFree
    /\ chLock' = t
    /\ pc' = [pc EXCEPT ![t] = "gen_insert"]
    /\ UNCHANGED <<now, transactions, challenges, txLock, frame, ret, drawn, hist, issued>>

\* an insertion that supersedes the identity's other pending challenges
ChallengeSuperseding(table, commitment, ip, key) ==
    LET others == {c \in DOMAIN table : table[c].client_ip # ip}
    IN  MapInsert([c \in others |-> table[c]], commitment,
                  [client_ip |-> ip, key |-> key])

\* hash.insert(mac, PowChallenge { client_ip, key }) (pow.rs 168-174)
ChallengeInserted(table, commitment, ip, key) ==
    MapInsert(table, commitment, [client_ip |-> ip, key |-> key])

\* hash.insert, the release of the lock, and the 401 of handle (pow.rs 168-179, 82-87)
InsertChallenge(t) ==
    /\ pc[t] = "gen_insert"
    /\ LET f == frame[t]
       IN  /\ challenges' = ChallengeInserted(challenges, f.minted, f.ip, f.key)
           /\ hist' = IF f.op = "generate_pow"
                      THEN hist
                      ELSE [hist EXCEPT ![f.ip] =
                               [@ EXCEPT !.challenged = IF Gated(f.op) THEN TRUE ELSE @,
                                         !.lastBits = f.bits,
                                         !.lastAt = f.time]]
           /\ issued' = MapInsert(issued, f.minted,
                                  [ip |-> f.ip, key |-> f.key, secret |-> f.drew,
                                   wrong |-> FALSE, oks |-> 0])
           /\ Finish(t, ChallengeReturned([f EXCEPT !.prevBits = hist[f.ip].lastBits,
                                                    !.prevAt = hist[f.ip].lastAt]))
    /\ chLock' = NoThread
    /\ UNCHANGED <<now, transactions, txLock, drawn>>

\* a direct call of generate_pow
GeneratePow(t, ip, bits) ==
    /\ pc[t] = "idle"
    /\ pc' = [pc EXCEPT ![t] = "gen"]
    /\ frame' = [frame EXCEPT ![t] =
                    [IdleFrame EXCEPT !.op = "generate_pow", !.ip = ip, !.bits = bits]]
    /\ ret' = NoRet
    /\ UNCHANGED <<now, transactions, challenges, txLock, chLock, drawn, hist, issued>>

(***************************************************************************)
(* validate_pow (pow.rs 185-217).                                          *)
(***************************************************************************)
\* a direct call of validate_pow
ValidatePow(t, ip, client_challenge, client_secret) ==
    /\ pc[t] = "idle"
    /\ pc' = [pc EXCEPT ![t] = "val_lock"]
    /\ frame' = [frame EXCEPT ![t] =
                    [IdleFrame EXCEPT !.op = "validate_pow", !.ip = ip,
                                      !.challenge = Some(client_challenge),
                                      !.secret = Some(client_secret),
                                      !.pendingAtCall = Pending(client_challenge),
                                      !.consumedAtCall = Consumed(client_challenge)]]
    /\ ret' = NoRet
    /\ UNCHANGED <<now, transactions, challenges, txLock, chLock, drawn, hist, issued>>

LockChallengesToValidate(t) ==
    /\ pc[t] = "val_lock"
    /\ ChLockFree
    /\ chLock' = t
    /\ pc' = [pc EXCEPT ![t] = "val_get"]
    /\ UNCHANGED <<now, transactions, challenges, txLock, frame, ret, drawn, hist, issued>>

\* the verdict with the identity check left out
VerdictAnyIdentity(table, ip, client_challenge, client_secret) ==
    IF client_challenge \notin DOMAIN table
    THEN "Invalid challenge"
    ELSE IF Commitment(HexEncode(table[client_challenge].key), client_secret)
            = client_challenge
    THEN "Ok"
    ELSE "Forbidden"

\* the verdict of the lookup, the identity check and the MAC comparison
\* (pow.rs 192-213), before any removal
Verdict(table, ip, client_challenge, client_secret) ==
    IF client_challenge \notin DOMAIN table
    THEN "Invalid challenge"
    ELSE IF table[client_challenge].client_ip # ip
    THEN "Forbidden. Client IP Mismatch."
    ELSE IF Commitment(HexEncode(table[client_challenge].key), client_secret)
            = client_challenge
    THEN "Ok"
    ELSE "Forbidden"

\* a gate that admits an accepted proof only while the caller is under the threshold
ValidationReturnedRated(f, result) ==
    IF f.op = "handle"
    THEN IF result = "Ok"
            /\ ~OverThreshold(GetTxcount(transactions, f.ip, now, FALSE).count)
         THEN Returned(f, 0, "", result, None, None)
         ELSE Returned(f, 403, "Challenge not accepted.", result, None, None)
    ELSE Returned(f, 0, "", result, None, None)

\* a gate that sends the client's commitment back with its refusal
ValidationReturnedEcho(f, result) ==
    IF Gated(f.op)
    THEN IF result = "Ok"
         THEN Returned(f, 0, "", result, None, None)
         ELSE Returned(f, 403, "Challenge not accepted.", result, f.challenge, None)
    ELSE Returned(f, 0, "", result, None, None)

\* what handle or a direct caller gets back from validate_pow (pow.rs 64-72)
ValidationReturned(f, result) ==
    IF Gated(f.op)
    THEN IF result = "Ok"
         THEN Returned(f, 0, "", result, None, None)
         ELSE Returned(f, 403, "Challenge not accepted.", result, None, None)
    ELSE Returned(f, 0, "", result, None, None)

\* the entry removed whatever the MAC comparison says
ConsumesChecked(v) == v \in {"Ok", "Forbidden"}

\* whether the verdict takes the hash.remove branch (pow.rs 206-208)
Consumes(v) == v = "Ok"

\* hash.get and the checks; a validation that removes nothing returns and releases
\* the lock
Lookup(t) ==
    /\ pc[t] = "val_get"
    /\ LET c == frame[t].challenge[1]
       IN
       \E v \in {Verdict(challenges, frame[t].ip, c, frame[t].secret[1])} :
       \E f \in {[frame[t] EXCEPT
                    !.verdict = v,
                    !.pendingAtLookup = Pending(c),
                    !.wrongAtLookup = (c \in DOMAIN issued /\ issued[c].wrong)]} :
           /\ issued' = IF v = "Forbidden" /\ c \in DOMAIN issued
                        THEN [issued EXCEPT ![c].wrong = TRUE]
                        ELSE issued
           /\ IF Consumes(v)
              THEN /\ pc' = [pc EXCEPT ![t] = "val_remove"]
                   /\ frame' = [frame EXCEPT ![t] = f]
                   /\ UNCHANGED <<ret, chLock>>
              ELSE /\ Finish(t, ValidationReturned(f, v))
                   /\ chLock' = NoThread
    /\ UNCHANGED <<now, transactions, challenges, txLock, drawn, hist>>

\* hash.remove, the result, and the release of the lock (pow.rs 207-208)
Remove(t) ==
    /\ pc[t] = "val_remove"
    /\ LET c == frame[t].challenge[1]
       IN  /\ challenges' = MapRemove(challenges, c)
           /\ issued' = IF c \in DOMAIN issued /\ frame[t].verdict = "Ok"
                        THEN [issued EXCEPT ![c].oks = Bump(@)]
                        ELSE issued
           /\ Finish(t, ValidationReturned(frame[t], frame[t].verdict))
    /\ chLock' = NoThread
    /\ UNCHANGED <<now, transactions, txLock, drawn, hist>>

(***************************************************************************)
(* Lock failure: a thread that panics while it holds a mutex poisons it,   *)
(* and lock() on a poisoned mutex returns Err (the Err(e) arms of          *)
(* pow.rs 136, 181 and 215).                                               *)
(***************************************************************************)
\* a thread panics inside a critical section (the expect of pow.rs 199, an
\* allocation of pow.rs 127 or 168); its call never returns
PanicHolding(t) ==
    /\ pc[t] \in {"tx_body", "gen_insert", "val_get", "val_remove"}
    /\ txLock' = IF txLock = t THEN Poisoned ELSE txLock
    /\ chLock' = IF chLock = t THEN Poisoned ELSE chLock
    /\ pc' = [pc EXCEPT ![t] = "idle"]
    /\ frame' = [frame EXCEPT ![t] = IdleFrame]
    /\ UNCHANGED <<now, transactions, challenges, ret, drawn, hist, issued>>

\* get_txcount returns Err (pow.rs 136); get_challenge's `if let Ok(count)`
\* does not match and it returns None (pow.rs 141, 149); handle returns None
\* (pow.rs 81, 90)
TransactionsLockFails(t) ==
    /\ pc[t] = "tx_lock"
    /\ txLock = Poisoned
    /\ Return(t, Returned([frame[t] EXCEPT !.lockFailed = TRUE],
                          0, "", "Internal server error", None, None))
    /\ UNCHANGED <<now, transactions, challenges, txLock, chLock, drawn, hist, issued>>

\* generate_pow returns Err (pow.rs 181); get_challenge's `if let Ok(pow)` does
\* not match and it returns None (pow.rs 144, 149); handle returns None
ChallengesLockFailsToInsert(t) ==
    /\ pc[t] = "gen_lock"
    /\ chLock = Poisoned
    /\ Return(t, Returned([frame[t] EXCEPT !.lockFailed = TRUE],
                          0, "", "Internal server error", None, None))
    /\ UNCHANGED <<now, transactions, challenges, txLock, chLock, drawn, hist, issued>>

\* validate_pow returns Err("Internal server error: ...") (pow.rs 215); handle
\* answers any Err alike (pow.rs 64-72)
ChallengesLockFailsToValidate(t) ==
    /\ pc[t] = "val_lock"
    /\ chLock = Poisoned
    /\ Return(t, ValidationReturned([frame[t] EXCEPT !.lockFailed = TRUE],
                                    "Internal server error"))
    /\ UNCHANGED <<now, transactions, challenges, txLock, chLock, drawn, hist, issued>>

(***************************************************************************)
(* The clock.                                                              *)
(***************************************************************************)
Advance ==
    /\ now + Tick <= MaxTime
    /\ now' = now + Tick
    /\ UNCHANGED <<transactions, challenges, txLock, chLock, pc, frame, ret, drawn, hist, issued>>

(***************************************************************************)
(* SpecRate: one thread makes proofless gated calls while the clock runs.  *)
(***************************************************************************)
CallBudget(ip) == IF ip = HeavyIP THEN MaxCalls ELSE MaxOtherCalls

RateSecrets == {7}

NextRate ==
    \/ \E ip \in IPs : /\ hist[ip].n < CallBudget(ip)
                       /\ Handle(1, ip, None, None)
    \/ LockTransactions(1)
    \/ RecordAndCount(1)
    \/ \E s \in RateSecrets : MintChallenge(1, s)
    \/ LockChallengesToInsert(1)
    \/ InsertChallenge(1)
    \/ Advance

SpecRate == Init /\ [][NextRate]_vars

(***************************************************************************)
(* SpecPow: challenges are minted and gated calls carry proofs, one call   *)
(* after another.                                                          *)
(***************************************************************************)
PowBits == {3, 4}
SecretSamples == {7, 13}
\* what clients send as a commitment: anything minted so far, or a made-up string
Bogus == <<"0", "0">>
ClientChallenges == (DOMAIN issued) \cup {Bogus}
\* what clients send as a secret
ClientSecrets == {<<"7">>, <<"1", "3">>, <<"0", "7">>}

NextPow ==
    \/ \E ip \in IPs, bits \in PowBits :
          /\ drawn < MaxIssued
          /\ GeneratePow(1, ip, bits)
    \/ \E s \in SecretSamples : MintChallenge(1, s)
    \/ LockChallengesToInsert(1)
    \/ InsertChallenge(1)
    \/ \E ip \in IPs, c \in ClientChallenges, s \in ClientSecrets :
          Handle(1, ip, Some(c), Some(s))
    \/ LockChallengesToValidate(1)
    \/ Lookup(1)
    \/ Remove(1)

SpecPow == Init /\ [][NextPow]_vars

(***************************************************************************)
(* SpecRace: two threads validate proofs concurrently, directly and        *)
(* through the gate, against a table in which generate_pow("a", 4) has     *)
(* minted one challenge.                                                   *)
(***************************************************************************)
RaceKey == KeyOf(1, KeyBytes)
RaceSecret == CHOOSE s \in SecretSamples : \A x \in SecretSamples : x <= s
RaceCommitment == Commitment(HexEncode(RaceKey), ToDecimal(RaceSecret))

InitRace ==
    /\ now = 0
    /\ transactions = <<>>
    /\ challenges = MapInsert(<<>>, RaceCommitment, [client_ip |-> HeavyIP, key |-> RaceKey])
    /\ txLock = NoThread
    /\ chLock = NoThread
    /\ pc = [t \in Threads |-> "idle"]
    /\ frame = [t \in Threads |-> IdleFrame]
    /\ ret = NoRet
    /\ drawn = 1
    /\ hist = [ip \in IPs |-> NoHist]
    /\ issued = MapInsert(<<>>, RaceCommitment,
                          [ip |-> HeavyIP, key |-> RaceKey, secret |-> RaceSecret,
                           wrong |-> FALSE, oks |-> 0])

NextRace ==
    \/ \E t \in Threads, ip \in IPs, c \in DOMAIN issued, s \in ClientSecrets :
          ValidatePow(t, ip, c, s)
    \/ \E t \in Threads, ip \in IPs, c \in DOMAIN issued, s \in ClientSecrets :
          Handle(t, ip, Some(c), Some(s))
    \/ \E t \in Threads : LockChallengesToValidate(t)
    \/ \E t \in Threads : Lookup(t)
    \/ \E t \in Threads : Remove(t)

SpecRace == InitRace /\ [][NextRace]_vars

(***************************************************************************)
(* SpecGate: one thread makes gated calls of every shape, one after        *)
(* another: proofless, with a complete proof, and with a commitment but no *)
(* secret.                                                                 *)
(***************************************************************************)
GateBudget(ip) == IF ip = HeavyIP THEN MaxGateCalls ELSE MaxOtherCalls

NextGate ==
    \/ \E ip \in IPs : /\ hist[ip].n < GateBudget(ip)
                       /\ Handle(1, ip, None, None)
    \/ LockTransactions(1)
    \/ RecordAndCount(1)
    \/ \E s \in RateSecrets : MintChallenge(1, s)
    \/ LockChallengesToInsert(1)
    \/ InsertChallenge(1)
    \/ \E ip \in IPs, c \in ClientChallenges, s \in ClientSecrets :
          Handle(1, ip, Some(c), Some(s))
    \/ \E ip \in IPs, c \in ClientChallenges : Handle(1, ip, Some(c), None)
    \/ LockChallengesToValidate(1)
    \/ Lookup(1)
    \/ Remove(1)

SpecGate == Init /\ [][NextGate]_vars

(***************************************************************************)
(* SpecFault: SpecGate's calls with complete proofs and without, where a   *)
(* thread may panic while it holds a lock.                                 *)
(***************************************************************************)
NextFault ==
    \/ \E ip \in IPs : /\ hist[ip].n < GateBudget(ip)
                       /\ Handle(1, ip, None, None)
    \/ LockTransactions(1)
    \/ RecordAndCount(1)
    \/ \E s \in RateSecrets : MintChallenge(1, s)
    \/ LockChallengesToInsert(1)
    \/ InsertChallenge(1)
    \/ \E ip \in IPs, c \in ClientChallenges, s \in ClientSecrets :
          Handle(1, ip, Some(c), Some(s))
    \/ LockChallengesToValidate(1)
    \/ Lookup(1)
    \/ Remove(1)
    \/ PanicHolding(1)
    \/ TransactionsLockFails(1)
    \/ ChallengesLockFailsToInsert(1)
    \/ ChallengesLockFailsToValidate(1)

SpecFault == Init /\ [][NextFault]_vars

(***************************************************************************)
(* SpecLocks: two threads make gated calls concurrently, proofless ones    *)
(* for one identity and proof-carrying ones for any.                       *)
(***************************************************************************)
\* proofless calls counted or still on their way to the rate tracker
Begun(ip) ==
    hist[ip].n + Cardinality({t \in Threads : /\ pc[t] \in {"tx_lock", "tx_body"}
                                              /\ frame[t].ip = ip})

NextLocks ==
    \/ \E t \in Threads : /\ Begun(HeavyIP) < MaxLockCalls
                           /\ Handle(t, HeavyIP, None, None)
    \/ \E t \in Threads : LockTransactions(t)
    \/ \E t \in Threads : RecordAndCount(t)
    \/ \E t \in Threads, s \in RateSecrets : MintChallenge(t, s)
    \/ \E t \in Threads : LockChallengesToInsert(t)
    \/ \E t \in Threads : InsertChallenge(t)
    \/ \E t \in Threads, ip \in IPs, c \in DOMAIN issued, s \in ClientSecrets :
          Handle(t, ip, Some(c), Some(s))
    \/ \E t \in Threads : LockChallengesToValidate(t)
    \/ \E t \in Threads : Lookup(t)
    \/ \E t \in Threads : Remove(t)

SpecLocks == Init /\ [][NextLocks]_vars

(***************************************************************************)
(* SpecHttp: one thread serves requests to the protected HTTP operations,  *)
(* one after another.                                                      *)
(***************************************************************************)
HttpBudget(ip) == IF ip = HeavyIP THEN MaxHttpCalls ELSE MaxOtherCalls

NextHttp ==
    \/ \E e \in Endpoints, ip \in IPs : /\ hist[ip].n < HttpBudget(ip)
                                        /\ Request(1, e, ip, None, None)
    \/ LockTransactions(1)
    \/ RecordAndCount(1)
    \/ \E s \in RateSecrets : MintChallenge(1, s)
    \/ LockChallengesToInsert(1)
    \/ InsertChallenge(1)
    \/ \E e \in Endpoints, ip \in IPs, c \in ClientChallenges, s \in ClientSecrets :
          Request(1, e, ip, Some(c), Some(s))
    \/ \E e \in Endpoints, ip \in IPs, c \in ClientChallenges :
          Request(1, e, ip, Some(c), None)
    \/ LockChallengesToValidate(1)
    \/ Lookup(1)
    \/ Remove(1)
    \/ \E ok \in BOOLEAN : DbAction(1, ok)

SpecHttp == Init /\ [][NextHttp]_vars

(***************************************************************************)
(* SpecProbe: one thread makes proofless gated calls, calls of the         *)
(* issue-challenge probe and count-only calls of the rate tracker while    *)
(* the clock runs.                                                         *)
(***************************************************************************)
ProbeBudget(ip) == IF ip = HeavyIP THEN MaxProbeCalls ELSE MaxOtherCalls

NextProbe ==
    \/ \E ip \in IPs : /\ hist[ip].n < ProbeBudget(ip)
                       /\ Handle(1, ip, None, None)
    \/ \E ip \in IPs : /\ hist[ip].n < ProbeBudget(ip)
                       /\ GetPow(1, ip)
    \/ \E ip \in IPs : GetTxcountOnly(1, ip)
    \/ LockTransactions(1)
    \/ RecordAndCount(1)
    \/ \E s \in RateSecrets : MintChallenge(1, s)
    \/ LockChallengesToInsert(1)
    \/ InsertChallenge(1)
    \/ LockTransactionsToCount(1)
    \/ CountOnly(1)
    \/ Advance

SpecProbe == Init /\ [][NextProbe]_vars

(***************************************************************************)
(* SpecBurst: two threads make proofless gated calls for one identity      *)
(* concurrently while the clock runs.                                      *)
(***************************************************************************)
NextBurst ==
    \/ \E t \in Threads : /\ Begun(HeavyIP) < MaxBurstCalls
                           /\ Handle(t, HeavyIP, None, None)
    \/ \E t \in Threads : LockTransactions(t)
    \/ \E t \in Threads : RecordAndCount(t)
    \/ \E t \in Threads, s \in RateSecrets : MintChallenge(t, s)
    \/ \E t \in Threads : LockChallengesToInsert(t)
    \/ \E t \in Threads : InsertChallenge(t)
    \/ Advance

SpecBurst == Init /\ [][NextBurst]_vars

(***************************************************************************)
(* SpecLife: the heavy identity is challenged by the gate and gated calls  *)
(* carry proofs, right and wrong, from either identity, while the clock    *)
(* runs.                                                                   *)
(***************************************************************************)
NextLife ==
    \/ /\ hist[HeavyIP].n < MaxLifeCalls
       /\ Handle(1, HeavyIP, None, None)
    \/ LockTransactions(1)
    \/ RecordAndCount(1)
    \/ \E s \in RateSecrets : MintChallenge(1, s)
    \/ LockChallengesToInsert(1)
    \/ InsertChallenge(1)
    \/ \E ip \in IPs, c \in DOMAIN issued, s \in ClientSecrets :
          Handle(1, ip, Some(c), Some(s))
    \/ LockChallengesToValidate(1)
    \/ Lookup(1)
    \/ Remove(1)
    \/ Advance

SpecLife == Init /\ [][NextLife]_vars

(***************************************************************************)
(* Concurrent calls of handle under fair scheduling: a running thread      *)
(* takes its next step, and a thread waiting for a mutex that is unlocked  *)
(* again and again gets it (pow.rs 61-91, 95, 167, 191). No thread panics. *)
(***************************************************************************)
\* the steps of thread t inside a call of handle
Step(t) ==
    \/ LockTransactions(t)
    \/ RecordAndCount(t)
    \/ \E s \in RateSecrets : MintChallenge(t, s)
    \/ LockChallengesToInsert(t)
    \/ InsertChallenge(t)
    \/ LockChallengesToValidate(t)
    \/ Lookup(t)
    \/ Remove(t)

\* the lock() calls of thread t
Acquire(t) ==
    \/ LockTransactions(t)
    \/ LockChallengesToInsert(t)
    \/ LockChallengesToValidate(t)

\* a challenge no proof has been looked up for yet
Untried(c) == issued[c].oks = 0 /\ ~issued[c].wrong

NextLive ==
    \/ \E t \in Threads : /\ Begun(HeavyIP) < MaxLiveCalls
                           /\ Handle(t, HeavyIP, None, None)
    \/ \E t \in Threads, c \in DOMAIN issued, s \in ClientSecrets :
          /\ Untried(c)
          /\ Handle(t, HeavyIP, Some(c), Some(s))
    \/ \E t \in Threads : Step(t)

Fairness == \A t \in Threads : WF_vars(Step(t)) /\ SF_vars(Acquire(t))

SpecLive == Init /\ [][NextLive]_vars /\ Fairness

(***************************************************************************)
(* Properties of the rate tracker and the proofless gate, under SpecRate.  *)
(***************************************************************************)
\* a returned proofless gated call
Proofless(r) == r.op = "handle" /\ r.challenge = None

\* C1: an identity none of whose calls had more than 4 other calls of its own
\* in the 30 seconds before it (so no 30-second span holds more than 5) is
\* admitted every time and is never issued a challenge.
C1_LowRateAlwaysAdmitted ==
    /\ \A ip \in IPs : ~hist[ip].over => ~hist[ip].challenged
    /\ (Proofless(ret) /\ ~hist[ret.ip].over) => ret.code = 0

\* seven or more calls spread over time, none in a crowded span, the last admitted
C1_Witness ==
    /\ Proofless(ret)
    /\ ret.n >= THRESHOLD + 2
    /\ ~hist[ret.ip].over
    /\ ret.code = 0

\* C2: all calls so far within 30 seconds of the identity's first call: the n-th
\* call, n >= 6, is answered ChallengeRequired with difficulty 11 + n.
C2_NthCallDifficulty ==
    (/\ Proofless(ret)
     /\ ret.n >= THRESHOLD + 1
     /\ ret.time - hist[ret.ip].first < WindowTicks)
    => (/\ ret.code = 401
        /\ ret.bits = BASE_BITS - THRESHOLD + ret.n)

\* C8: a proofless call made more than 30 seconds after the identity's previous
\* one sees a trailing count of 0 and is admitted.
C8_ActivityExpires ==
    (Proofless(ret) /\ ret.gap > WindowTicks) => (ret.count = 0 /\ ret.code = 0)

\* the identity had filled all 32 slots before it paused
C8_Witness ==
    /\ Proofless(ret)
    /\ ret.gap > WindowTicks
    /\ ret.storedBefore = SLOTS
    /\ ret.code = 0

\* C9: a proofless call made when the identity has made more than 5 proofless
\* calls in the 30 seconds before it is answered ChallengeRequired.
C9_OverThresholdThrottled ==
    (Proofless(ret) /\ ret.recentBefore > THRESHOLD) => ret.code = 401

\* C10: the recording call returns the number of the identity's stored entries
\* less than 30 seconds old, the one just recorded included.
C10_CountIncludesRecorded ==
    Proofless(ret) => ret.count = ret.freshAfter

\* C17: the difficulty the gate passes to generate_pow is at most 63 bits, so
\* 2^bits fits a u64, however many calls the identity has made.
C17_DifficultyFitsU64 ==
    /\ \A t \in Threads :
          (frame[t].op = "handle" /\ pc[t] \in {"gen", "gen_lock", "gen_insert"})
          => (frame[t].bits >= 0 /\ frame[t].bits < U64_BITS)
    /\ (Proofless(ret) /\ ret.code = 401) => ret.bits < U64_BITS

\* the highest difficulty there is: a call that found all 32 slots unexpired
C17_Witness ==
    /\ Proofless(ret)
    /\ ret.code = 401
    /\ ret.count = SLOTS
    /\ ret.n > SLOTS + 1
    /\ ret.bits = BASE_BITS + SLOTS - THRESHOLD

\* C24: a proofless call is answered with a challenge exactly when the count c
\* the tracker returned for it exceeds 5, and the difficulty is then
\* 16 + c - 5; with c <= 5 nothing is minted, and only a step of a call with
\* c > 5 changes the pending-challenge table.
C24_DifficultyPolicy ==
    /\ [](Proofless(ret)
          => (/\ ret.code = 401 <=> ret.count > THRESHOLD
              /\ ret.code = 401 => (/\ ret.bits = BASE_BITS + ret.count - THRESHOLD
                                     /\ ret.minted \in DOMAIN issued)
              /\ ret.count <= THRESHOLD => (/\ ret.code = 0
                                             /\ ret.minted = <<>>
                                             /\ ret.key = <<>>)))
    /\ [][\A t \in Threads :
            (/\ frame[t].op = "handle"
             /\ frame[t].challenge = None
             /\ pc'[t] # pc[t]
             /\ challenges' # challenges \/ drawn' # drawn)
            => (/\ frame[t].count > THRESHOLD
                /\ frame[t].bits = BASE_BITS + frame[t].count - THRESHOLD)]_vars

\* the lowest count that is challenged, with the lowest difficulty
C24_Witness ==
    /\ Proofless(ret)
    /\ ret.code = 401
    /\ ret.count = THRESHOLD + 1
    /\ ret.bits = BASE_BITS + 1
    /\ ret.minted \in DOMAIN challenges

\* the occupied slots of a window are its first slots
OccupiedPrefix(txvec) ==
    LET n == Occupied(txvec)
    IN  \A k \in 1..Len(txvec) : k <= n <=> txvec[k] # NoInstant

\* every timestamp of a window was less than 30 seconds old, or was the
\* current time, at the given instant
FreshAt(txvec, written) ==
    \A k \in 1..Len(txvec) :
        txvec[k] # NoInstant => (txvec[k] <= written /\ written - txvec[k] < WindowTicks)

\* C31: every stored window has 32 slots, its occupied slots are its first
\* slots, and each of its timestamps was less than 30 seconds old (or was the
\* current time) when the window was last written; the count get_txcount
\* returns is between 0 and 32 and the difficulty the gate requests is between
\* 17 and 43 bits.
C31_WindowInvariant ==
    /\ \A ip \in DOMAIN transactions :
          /\ Len(transactions[ip]) = SLOTS
          /\ Occupied(transactions[ip]) <= SLOTS
          /\ OccupiedPrefix(transactions[ip])
          /\ hist[ip].n > 0
          /\ FreshAt(transactions[ip], hist[ip].last)
          /\ \E k \in 1..SLOTS : transactions[ip][k] = hist[ip].last
    /\ Proofless(ret) => (ret.count >= 0 /\ ret.count <= SLOTS)
    /\ \A t \in Threads :
          (frame[t].op = "handle" /\ pc[t] \in {"gen", "gen_lock", "gen_insert"})
          => (/\ frame[t].bits >= BASE_BITS + 1
              /\ frame[t].bits <= BASE_BITS + SLOTS - THRESHOLD)
    /\ (Proofless(ret) /\ ret.code = 401)
          => (/\ ret.bits >= BASE_BITS + 1
              /\ ret.bits <= BASE_BITS + SLOTS - THRESHOLD)

\* a full window written after entries of it had expired and been replaced:
\* all 32 slots occupied, the oldest entry later than the first call
C31_Witness ==
    /\ Proofless(ret)
    /\ ret.code = 401
    /\ ret.count < SLOTS
    /\ ret.count > THRESHOLD
    /\ ret.storedBefore = SLOTS
    /\ Occupied(transactions[ret.ip]) = ret.count + 1
    /\ \A k \in 1..SLOTS :
          transactions[ret.ip][k] # NoInstant => transactions[ret.ip][k] > hist[ret.ip].first

\* the count the recording call returns for an identity never seen
AbsentCount == GetTxcount(<<>>, HeavyIP, 0, TRUE).count

\* C25: the recording call returns the same count for an identity whose
\* entries have all expired as for an identity never seen.
C25_AbsentIsEmpty ==
    (Proofless(ret) /\ ret.freshBefore = 0) => ret.count = AbsentCount

\* C11: when a call is recorded into a window that holds 32 unexpired entries,
\* the entry given up is the oldest: the window then holds the identity's 32
\* most recent calls.
C11_EvictsOldest ==
    (Proofless(ret) /\ ret.fullBefore) => ret.holdsLatest

(***************************************************************************)
(* Properties of the validator, under SpecPow and SpecRace.                *)
(***************************************************************************)
DecimalDigits == <<"0", "1", "2", "3", "4", "5", "6", "7", "8", "9">>

\* the decimal text of a number, as a client brute-forcing the secret writes it
RECURSIVE Decimal(_)
Decimal(n) ==
    IF n < 10 THEN <<DecimalDigits[n + 1]>>
    ELSE Decimal(n \div 10) \o <<DecimalDigits[(n % 10) + 1]>>

\* a returned call that went through validate_pow, and what it presented
Validated(r) == r.op \in {"handle", "validate_pow"} /\ r.challenge # None /\ r.secret # None
ByOwner(r) == r.challenge[1] \in DOMAIN issued /\ issued[r.challenge[1]].ip = r.ip
WithSecret(r) ==
    /\ r.challenge[1] \in DOMAIN issued
    /\ r.secret[1] = Decimal(issued[r.challenge[1]].secret)

\* C3: a proof presented for a commitment that a validation has already accepted
\* is refused with "Invalid challenge", and the gate answers 403.
C3_SingleUse ==
    (Validated(ret) /\ ret.consumedAtCall)
    => (/\ ret.result = "Invalid challenge"
        /\ ret.op = "handle" => ret.code = 403)

\* the owner resubmits the accepted commitment with the same correct secret
C3_Witness ==
    /\ Validated(ret)
    /\ ret.consumedAtCall
    /\ ByOwner(ret)
    /\ WithSecret(ret)
    /\ ret.op = "handle"
    /\ ret.code = 403

\* C4: of the owner's concurrent validations carrying the correct secret for a
\* commitment pending when they were called, one succeeds and the others get
\* "Invalid challenge": no commitment is accepted twice, and a call that loses
\* has lost to one that was accepted.
C4_AtomicConsumption ==
    /\ \A c \in DOMAIN issued : issued[c].oks <= 1
    /\ (Validated(ret) /\ ret.pendingAtCall /\ ByOwner(ret) /\ WithSecret(ret))
       => (/\ ret.result \in {"Ok", "Invalid challenge"}
           /\ ret.result = "Invalid challenge" => issued[ret.challenge[1]].oks = 1)

\* a call made while the commitment was pending lost the race
C4_Witness ==
    /\ Validated(ret)
    /\ ret.pendingAtCall
    /\ ByOwner(ret)
    /\ WithSecret(ret)
    /\ ret.result = "Invalid challenge"

\* C5: a validation of a pending commitment by an identity other than the one
\* it was issued to is refused with the IP-mismatch error, whatever the secret.
C5_IdentityMismatch ==
    (Validated(ret) /\ ret.pendingAtLookup /\ ~ByOwner(ret))
    => ret.result = "Forbidden. Client IP Mismatch."

\* another identity presents the correct secret
C5_Witness ==
    /\ Validated(ret)
    /\ ret.pendingAtLookup
    /\ ~ByOwner(ret)
    /\ WithSecret(ret)
    /\ ret.result = "Forbidden. Client IP Mismatch."

\* C6: the owner's wrong secret for a pending commitment is refused with
\* "Forbidden" and the entry stays in the table; after wrong guesses the owner's
\* correct secret is still accepted.
C6_WrongSolutionKeepsChallenge ==
    /\ (Validated(ret) /\ ret.pendingAtLookup /\ ByOwner(ret) /\ ~WithSecret(ret))
       => (/\ ret.result = "Forbidden"
           /\ ret.challenge[1] \in DOMAIN challenges)
    /\ (Validated(ret) /\ ret.pendingAtLookup /\ ByOwner(ret) /\ WithSecret(ret)
        /\ ret.wrongAtLookup)
       => ret.result = "Ok"

\* accepted after a wrong guess
C6_Witness ==
    /\ Validated(ret)
    /\ ret.pendingAtLookup
    /\ ByOwner(ret)
    /\ WithSecret(ret)
    /\ ret.wrongAtLookup
    /\ ret.result = "Ok"

\* C7: every commitment minted is the MAC, under the stored key's hex form, of
\* the decimal text of the secret drawn, and the owner presenting that text
\* while the commitment is pending is accepted.
C7_RoundTrip ==
    /\ \A c \in DOMAIN issued :
          /\ Commitment(HexEncode(issued[c].key), Decimal(issued[c].secret)) = c
          /\ Pending(c) => (c \in DOMAIN challenges /\ challenges[c].key = issued[c].key)
    /\ (Validated(ret) /\ ret.pendingAtLookup /\ ByOwner(ret) /\ WithSecret(ret))
       => ret.result = "Ok"

\* a two-digit secret, presented by the owner, is accepted
C7_Witness ==
    /\ Validated(ret)
    /\ ByOwner(ret)
    /\ WithSecret(ret)
    /\ issued[ret.challenge[1]].secret >= 10
    /\ ret.result = "Ok"

\* the pending challenges bound to an identity
PendingOf(table, ip) == {c \in DOMAIN table : table[c].client_ip = ip}

\* C21: generate_pow adds exactly one entry to the pending-challenge table,
\* keyed by the commitment it returns and bound to the given identity and to
\* the key whose hex form it returns, and changes no other entry; every
\* challenge not yet solved is in the table under its own key, so several can
\* be outstanding for one identity.
C21_GenerateAddsOne ==
    /\ [](\A c \in DOMAIN issued :
            Pending(c) => (/\ c \in DOMAIN challenges
                           /\ challenges[c].client_ip = issued[c].ip
                           /\ challenges[c].key = issued[c].key))
    /\ [][\A t \in Threads :
            (pc[t] = "gen_insert" /\ pc'[t] # pc[t] /\ frame[t].op = "generate_pow")
            => (/\ ret'.outChallenge # None
                /\ ret'.outKey # None
                /\ ret'.outChallenge[1] \notin DOMAIN challenges
                /\ DOMAIN challenges' = DOMAIN challenges \cup {ret'.outChallenge[1]}
                /\ challenges'[ret'.outChallenge[1]].client_ip = frame[t].ip
                /\ HexEncode(challenges'[ret'.outChallenge[1]].key) = ret'.outKey[1]
                /\ \A c \in DOMAIN challenges : challenges'[c] = challenges[c])]_vars

\* generate_pow has returned and the identity has two challenges outstanding
C21_Witness ==
    /\ ret.op = "generate_pow"
    /\ ret.outChallenge # None
    /\ ret.outChallenge[1] \in DOMAIN challenges
    /\ Cardinality(PendingOf(challenges, ret.ip)) >= 2

\* C28: a step of a validation either leaves the pending-challenge table as
\* it was, or is the return of a success and removes exactly the entry keyed
\* by the commitment supplied; a validation that returns "Invalid challenge",
\* the IP-mismatch error or "Forbidden" has left every entry in place.
C28_ValidateRemovesOnSuccess ==
    /\ []((Validated(ret) /\ ret.result # "Ok")
          => \A c \in DOMAIN issued :
                Pending(c) => (c \in DOMAIN challenges
                               /\ challenges[c].client_ip = issued[c].ip))
    /\ [][\A t \in Threads :
            (pc[t] \in {"val_lock", "val_get", "val_remove"} /\ pc'[t] # pc[t])
            => \/ challenges' = challenges
               \/ /\ ret'.result = "Ok"
                  /\ frame[t].verdict = "Ok"
                  /\ challenges[frame[t].challenge[1]].client_ip = frame[t].ip
                  /\ DOMAIN challenges' = DOMAIN challenges \ {frame[t].challenge[1]}
                  /\ frame[t].challenge[1] \in DOMAIN challenges
                  /\ \A c \in DOMAIN challenges' : challenges'[c] = challenges[c]]_vars

\* a success that left another pending challenge in the table
C28_Witness ==
    /\ Validated(ret)
    /\ ret.result = "Ok"
    /\ ret.challenge[1] \notin DOMAIN challenges
    /\ \E c \in DOMAIN challenges : Pending(c)

(***************************************************************************)
(* Properties of the gate as a whole, under SpecGate.                      *)
(***************************************************************************)
\* C12: a gated call carrying the commitment and the correct secret of a
\* challenge pending for the caller is Admitted, whatever the caller's trailing
\* count.
C12_ProofAdmitsAtAnyRate ==
    (/\ Validated(ret)
     /\ ret.op = "handle"
     /\ ret.pendingAtLookup
     /\ ByOwner(ret)
     /\ WithSecret(ret))
    => (ret.code = 0 /\ ret.outChallenge = None /\ ret.outKey = None)

\* admitted on a proof while 9 of the caller's calls are less than 30 seconds old
C12_Witness ==
    /\ Validated(ret)
    /\ ret.op = "handle"
    /\ ret.pendingAtLookup
    /\ ByOwner(ret)
    /\ WithSecret(ret)
    /\ ret.ip \in DOMAIN transactions
    /\ FreshStored(transactions[ret.ip], now) >= THRESHOLD + 4
    /\ ret.code = 0

\* a step of a gated call that supplied a commitment: its start, one of its
\* steps under a lock, or its return
CommitmentStep ==
    \/ \E t \in Threads : /\ frame[t].op = "handle"
                           /\ frame[t].challenge # None
                           /\ pc'[t] # pc[t]
    \/ \E t \in Threads : /\ pc[t] = "idle"
                           /\ frame'[t].op = "handle"
                           /\ frame'[t].challenge # None
    \/ /\ ret' # ret
       /\ ret'.op = "handle"
       /\ ret'.challenge # None

\* C13: no step of a gated call that supplied a commitment, whether the call
\* ends accepted, rejected or incomplete, changes any identity's window, and
\* none issues a challenge.
C13_ProofCallsLeaveActivity ==
    [][CommitmentStep => (/\ transactions' = transactions
                          /\ hist' = hist
                          /\ drawn' = drawn
                          /\ DOMAIN challenges' \subseteq DOMAIN challenges
                          /\ DOMAIN issued' = DOMAIN issued)]_vars

\* a proof was rejected while both identities had windows and a challenge was pending
C13_Witness ==
    /\ Validated(ret)
    /\ ret.op = "handle"
    /\ ret.code = 403
    /\ DOMAIN transactions = IPs
    /\ challenges # <<>>

\* a returned gated call that supplied a commitment and no secret
Incomplete(r) == r.op = "handle" /\ r.challenge # None /\ r.secret = None

\* C14: a gated call with a commitment and no secret returns code 500 with no
\* challenge and no key in the one step it takes, and that step changes
\* neither table, even when the commitment names a pending challenge.
C14_IncompleteProof ==
    [][(ret' # ret /\ Incomplete(ret'))
       => (/\ ret'.code = 500
           /\ ret'.outChallenge = None
           /\ ret'.outKey = None
           /\ pc' = pc
           /\ UNCHANGED <<transactions, challenges, txLock, chLock>>)]_vars

\* the owner sent a pending commitment without its secret; the challenge stays
C14_Witness ==
    /\ Incomplete(ret)
    /\ ret.pendingAtCall
    /\ ByOwner(ret)
    /\ ret.code = 500
    /\ ret.challenge[1] \in DOMAIN challenges
    /\ DOMAIN transactions # {}

\* C20: every call of handle returns exactly one of Admitted (None), 401, 403
\* and 500, and the challenge and the key are populated, both of them, if and
\* only if the code is 401.
C20_FourOutcomes ==
    ret.op = "handle"
    => (/\ ret.code \in {0, 401, 403, 500}
        /\ ret.outChallenge # None <=> ret.code = 401
        /\ ret.outKey # None <=> ret.code = 401
        /\ ret.code = 0 => ret.status = ""
        /\ ret.code = 401 => (/\ ret.challenge = None
                               /\ ret.outChallenge = Some(ret.minted)
                               /\ ret.outKey = Some(ret.hexkey))
        /\ ret.code = 403 => (ret.challenge # None /\ ret.secret # None)
        /\ ret.code = 500 => (ret.challenge # None /\ ret.secret = None))

\* a 401 carrying the commitment now pending in the table and the key to solve it
C20_Witness ==
    /\ ret.op = "handle"
    /\ ret.code = 401
    /\ ret.outChallenge # None
    /\ ret.outKey # None
    /\ ret.outChallenge[1] \in DOMAIN challenges
    /\ ret.outKey[1] = HexEncode(challenges[ret.outChallenge[1]].key)

\* a step in which no gated call made with the identity takes part: the
\* thread that moves acts for somebody else, and so does a call that returns
StepOfOthers(ip) ==
    /\ \A t \in Threads :
          (frame'[t] # frame[t] \/ pc'[t] # pc[t])
          => (IF frame[t].op # "none" THEN frame[t].ip ELSE frame'[t].ip) # ip
    /\ (ret' # ret /\ ret'.op # "none") => ret'.ip # ip
    /\ now' = now

\* C27: a step of a gated call made with one identity, whatever the call's
\* shape, leaves every other identity's window, the trailing count reported
\* for it and the pending challenges bound to it as they were.
C27_IdentityIsolation ==
    [][\A ip \in IPs :
         StepOfOthers(ip)
         => (/\ ip \in DOMAIN transactions' <=> ip \in DOMAIN transactions
             /\ ip \in DOMAIN transactions => transactions'[ip] = transactions[ip]
             /\ GetTxcount(transactions', ip, now, FALSE).count
                = GetTxcount(transactions, ip, now, FALSE).count
             /\ PendingOf(challenges', ip) = PendingOf(challenges, ip)
             /\ \A c \in PendingOf(challenges, ip) : challenges'[c] = challenges[c])]_vars

\* another identity presented the owner's pending commitment with the correct
\* secret; the owner's challenge and window are still there
C27_Witness ==
    /\ Validated(ret)
    /\ ret.op = "handle"
    /\ ~ByOwner(ret)
    /\ WithSecret(ret)
    /\ ret.challenge[1] \in DOMAIN challenges
    /\ challenges[ret.challenge[1]].client_ip # ret.ip
    /\ DOMAIN transactions = IPs

(***************************************************************************)
(* Properties of the gate when a lock cannot be acquired, under SpecFault. *)
(***************************************************************************)
\* C15: a proof-carrying gated call whose acquisition of the challenge-table
\* lock fails is answered as a server fault, code 500, never as the 403 of a
\* rejected proof.
C15_ValidationLockFailureIsFault ==
    (Validated(ret) /\ ret.op = "handle" /\ ret.lockFailed)
    => (ret.code = 500 /\ ret.code # 403)

\* C16: a proofless gated call during which the acquisition of the
\* activity-table lock or of the challenge-table lock fails is answered as an
\* internal fault: it is not Admitted.
C16_ProoflessLockFailureIsFault ==
    (Proofless(ret) /\ ret.lockFailed) => (ret.code = 500 /\ ret.code # 0)

(***************************************************************************)
(* Properties of the locking, under SpecLocks.                             *)
(***************************************************************************)
\* C18: no thread ever holds the transactions lock and the challenges lock
\* at once.
C18_OneLockAtATime ==
    \A t \in Threads : ~(txLock = t /\ chLock = t)

\* a proofless call holds the challenges lock to insert its challenge, having
\* gone through the transactions lock, which the other thread now holds
C18_Witness ==
    \E t \in Threads, u \in Threads :
        /\ t # u
        /\ chLock = t
        /\ pc[t] = "gen_insert"
        /\ frame[t].op = "handle"
        /\ txLock = u
        /\ pc[u] = "tx_body"

(***************************************************************************)
(* Properties of the protected HTTP operations, under SpecHttp.            *)
(***************************************************************************)
\* the gate's verdict on a call is Admitted: no proof and a count within the
\* threshold, or a complete proof that validate_pow accepted
AdmittedCall(f) ==
    /\ f.gate = 0
    /\ f.challenge = None => ~OverThreshold(f.count)
    /\ f.challenge # None => (f.secret # None /\ f.verdict = "Ok")

\* C19: id, post_comment, get_comments and vote reach and execute their
\* database action only when the gate's verdict on the request is Admitted.
C19_DbOnlyWhenAdmitted ==
    /\ \A t \in Threads : pc[t] = "db" => AdmittedCall(frame[t])
    /\ (ret.op \in Endpoints /\ ret.db) => AdmittedCall(ret)
    /\ (ret.op \in Endpoints /\ ret.gate # 0) => (~ret.db /\ ret.code = ret.gate)

\* a challenged identity's request is served on the strength of its proof
C19_Witness ==
    /\ ret.op \in Endpoints
    /\ ret.db
    /\ ret.code = 200
    /\ ret.challenge # None
    /\ hist[ret.ip].challenged

(***************************************************************************)
(* Properties of the probe endpoint and of the count-only call of the      *)
(* rate tracker, under SpecProbe.                                          *)
(***************************************************************************)
\* C22: the issue-challenge probe answers 401 with the hex commitment and hex
\* key of a challenge it has just made pending, or 300 with the commitment and
\* the key both the empty string.
C22_ProbeAnswers ==
    ret.op = "get_pow"
    => \/ /\ ret.code = 401
          /\ ret.outChallenge \in DOMAIN challenges
          /\ ret.outKey = HexEncode(challenges[ret.outChallenge].key)
       \/ /\ ret.code = 300
          /\ ret.outKey = EmptyText
          /\ ret.outChallenge = EmptyText

\* a returned call that went through get_challenge: a proofless gated call or
\* a call of the probe
Recording(r) == Proofless(r) \/ r.op = "get_pow"

\* every such call has added itself to the identity's unexpired entries (or,
\* with all 32 slots unexpired, has taken the place of one)
AttemptRecorded(r) ==
    /\ r.ip \in DOMAIN transactions
    /\ r.freshAfter = IF r.freshBefore < SLOTS THEN r.freshBefore + 1 ELSE SLOTS
    /\ \E k \in 1..SLOTS : transactions[r.ip][k] = r.time

\* a challenge returned through get_challenge to an identity that was issued
\* one before
Reissued(r) ==
    /\ Recording(r)
    /\ r.minted # <<>>
    /\ r.prevAt # NoInstant

\* C30: every proofless gated call and every call of the probe records an
\* attempt, whatever it is answered, and a challenge issued to an identity less
\* than 30 seconds after the previous one is at least as difficult.
C30_RetryNeverCheaper ==
    /\ Recording(ret) => AttemptRecorded(ret)
    /\ (Reissued(ret) /\ ret.time - ret.prevAt < WindowTicks) => ret.prevBits <= ret.bits

\* C30, amended: every proofless gated call and every call of the probe
\* records an attempt, whatever it is answered, and a challenge issued to an
\* identity less than 30 seconds after the identity's first call (so that none
\* of its recorded attempts has expired) is at least as difficult as the
\* previous one.
C30_RetryNeverCheaperWhileFresh ==
    /\ Recording(ret) => AttemptRecorded(ret)
    /\ (Reissued(ret) /\ ret.time - hist[ret.ip].first < WindowTicks)
          => ret.prevBits <= ret.bits

\* the probe answers with a challenge harder than the one issued before, while
\* no attempt of the identity has expired
C30_Witness ==
    /\ ret.op = "get_pow"
    /\ ret.code = 401
    /\ Reissued(ret)
    /\ ret.prevAt < ret.time
    /\ ret.time - hist[ret.ip].first < WindowTicks
    /\ ret.prevBits < ret.bits
    /\ AttemptRecorded(ret)

\* C23: get_txcount(identity, false) changes no identity's window, returns 0
\* for an identity with no entry, and otherwise returns the number of the
\* identity's entries less than 30 seconds old.
C23_CountOnlyIsPure ==
    /\ [](ret.op = "get_txcount"
          => (/\ ret.count = ret.freshBefore
              /\ ret.storedBefore = -1 => ret.count = 0
              /\ ret.ip \in DOMAIN transactions
                 => ret.count = FreshStored(transactions[ret.ip], ret.time)))
    /\ [][\A t \in Threads :
            (/\ frame[t].op = "get_txcount" \/ frame'[t].op = "get_txcount"
             /\ pc'[t] # pc[t])
            => transactions' = transactions]_vars

\* a count-only call on a window holding expired entries beside fresh ones
C23_Witness ==
    /\ ret.op = "get_txcount"
    /\ ret.count > 0
    /\ ret.storedBefore > ret.count
    /\ Occupied(transactions[ret.ip]) = ret.storedBefore

(***************************************************************************)
(* Properties of concurrent proofless calls, under SpecBurst.              *)
(***************************************************************************)
\* C26: however two threads' proofless calls for one identity interleave, an
\* admitted call has at most 5 admitted calls of the identity in the 30 seconds
\* before it (so no span shorter than 30 seconds holds more than 6), every
\* other call is answered ChallengeRequired, and no recorded call is lost:
\* while the identity has made no more calls than the window has slots, the
\* window holds every call of the last 30 seconds.
C26_BoundedAdmission ==
    /\ \A ip \in IPs : Len(RecentCalls(hist[ip].admitted, hist[ip].last)) <= THRESHOLD + 1
    /\ Proofless(ret)
       => (/\ ret.code \in {0, 401}
           /\ ret.code = 0 => ret.admittedBefore <= THRESHOLD
           /\ ret.n <= SLOTS => ret.freshAfter = ret.recentBefore + 1)

\* the sixth call admitted in a burst, while the other thread's call, recorded
\* after it, is on its way to a challenge
C26_Witness ==
    /\ Proofless(ret)
    /\ ret.code = 0
    /\ ret.admittedBefore = THRESHOLD
    /\ \E t \in Threads : /\ pc[t] \in {"gen", "gen_lock", "gen_insert"}
                           /\ frame[t].ip = ret.ip
                           /\ frame[t].time = ret.time

(***************************************************************************)
(* Properties of a challenge's life, under SpecLife.                       *)
(***************************************************************************)
\* C29: an entry leaves the pending-challenge table only in the step in which
\* a validation by the identity it is bound to returns success; the clock,
\* the rate tracker, further issuance and failed validations remove nothing,
\* so a challenge not yet solved is in the table and its owner's correct
\* secret is accepted.
C29_RemovedOnlyBySuccess ==
    /\ [](\A c \in DOMAIN issued : c \in DOMAIN challenges \/ issued[c].oks = 1)
    /\ []((Validated(ret) /\ ret.pendingAtLookup /\ ByOwner(ret) /\ WithSecret(ret))
          => ret.result = "Ok")
    /\ [][\A c \in DOMAIN challenges :
            c \notin DOMAIN challenges'
            => \E t \in Threads :
                  /\ pc[t] = "val_remove"
                  /\ pc'[t] = "idle"
                  /\ frame[t].challenge = Some(c)
                  /\ frame[t].ip = challenges[c].client_ip
                  /\ ret'.result = "Ok"]_vars

\* a challenge solved more than 30 seconds after it was issued, after a wrong
\* guess and after a further challenge was issued
C29_Witness ==
    /\ Validated(ret)
    /\ ret.result = "Ok"
    /\ ret.wrongAtLookup
    /\ now >= WindowTicks
    /\ hist[ret.ip].last = 0
    /\ Cardinality(DOMAIN issued) >= 2

(***************************************************************************)
(* Properties checked under SpecLive.                                      *)
(***************************************************************************)
\* the threads inside a call
InProgress == {t \in Threads : pc[t] # "idle"}

\* C32: with threads calling handle concurrently, fair scheduling and no
\* panic, there is no state in which every call in progress is blocked, and
\* every call eventually returns.
C32_HandleCompletes ==
    /\ [](InProgress # {} => \E t \in InProgress : ENABLED Step(t))
    /\ \A t \in Threads : (pc[t] # "idle") ~> (pc[t] = "idle")

\* a call waiting for the challenges mutex while another call, holding it,
\* is about to remove the challenge both have brought a proof for
C32_Witness ==
    /\ chLock = 2
    /\ pc[2] = "val_remove"
    /\ pc[1] = "val_lock"
    /\ frame[1].challenge = frame[2].challenge
    /\ ~ENABLED Step(1)

====
